---- MODULE Spec2Model ----
(***************************************************************************)
(* Transaction submission of the relayer test framework:                   *)
(*   tools/test-framework/src/relayer/tx.rs  (simple_send_tx)              *)
(* One submission is one call of simple_send_tx.  The function suspends at *)
(* its remote calls (query_account, estimate_fee_and_send_tx,              *)
(* wait_for_block_commits); each callee leaves its return value in ret and *)
(* the `?` after the call either returns the error or goes on.  The three  *)
(* callees live in the relayer crate; their steps follow sections 4.2-4.4  *)
(* of the specification.                                                   *)
(***************************************************************************)
EXTENDS Integers, Sequences, FiniteSets, TLC

\* Largest number of messages handed to one call.
MaxMsgs == 3

\* config.rpc_timeout, counted in poll iterations of the commit wait.
RpcTimeout == 2

\* The submissions (calls of simple_send_tx) of one signing credential.
Procs == {1, 2}

\* Messages that execute successfully, and messages the chain rejects at
\* execution (each with its own cause).
OkMsgs == {"a", "b"}
FailMsgs == {"x", "y"}
Msgs == OkMsgs \cup FailMsgs

RECURSIVE SeqsUpTo(_, _)
SeqsUpTo(S, n) ==
    IF n = 0 THEN {<<>>}
    ELSE LET shorter == SeqsUpTo(S, n - 1)
         IN  shorter \cup {Append(s, x) : s \in {t \in shorter : Len(t) = n - 1}, x \in S}

VARIABLES
    pc,               \* position of each call in simple_send_tx
    messages,         \* the `messages` argument
    account,          \* the sequence number held by `account` (-1: not read)
    message_count,    \* messages.len()
    signedTx,         \* the transaction signed for the call (NoTx: none)
    response,         \* the broadcast response (id of the transaction, 0: none)
    tx_sync_results,  \* the vector handed to wait_for_block_commits
    ret,              \* return value of the remote call in progress
    result,           \* the value simple_send_tx returned
    elapsed,          \* poll iterations of the commit wait so far
    txState,          \* the waiter's state of the call's transaction
    stages,           \* the stages the call has run, in order
    chainSeq,         \* the account's sequence number on the chain
    nextTxId,         \* transaction ids handed out by the node
    mempool,          \* transactions the node accepted, not yet in a block
    chain,            \* transactions in blocks, in order, with their events
    rejected,         \* transactions the chain refused at delivery
    codec,            \* a conversion between RawPacketData and PacketData
    sup               \* the supervisor set-up of each test case

vars == <<pc, messages, account, message_count, signedTx, response, tx_sync_results, ret,
          result, elapsed, txState, stages, chainSeq, nextTxId, mempool, chain,
          rejected, codec, sup>>

procVars == <<pc, messages, account, message_count, signedTx, response, tx_sync_results,
              ret, result, elapsed, txState, stages>>

chainVars == <<chainSeq, nextTxId, mempool, chain, rejected>>

\* The state of the packet codec and of the test overrides, which
\* simple_send_tx does not touch.
otherVars == <<codec, sup>>

----------------------------------------------------------------------------
\* Values

\* IbcEvent::default()
DefaultEvent == [tag |-> "Default", data |-> ""]

\* IbcEvent::ChainError(e)
ChainErrorEvent(e) == [tag |-> "ChainError", data |-> e]

\* Any other IbcEvent variant, emitted by message m.
OtherEvent(m) == [tag |-> "Other", data |-> m]

\* Result values: Ok(val) and Err(kind, cause); NoValue before a return.
NoValue == [tag |-> "None", kind |-> "", cause |-> "", val |-> 0]
OkVal(v) == [tag |-> "Ok", kind |-> "", cause |-> "", val |-> v]
ErrVal(k, c) == [tag |-> "Err", kind |-> k, cause |-> c, val |-> 0]

\* A signed transaction: its id (hash), the call that signed it, the account
\* sequence it was signed with and the messages it carries.
NoTx == [id |-> 0, from |-> 0, seq |-> -1, msgs |-> <<>>]
Tx(i, p, s, ms) == [id |-> i, from |-> p, seq |-> s, msgs |-> ms]

\* The event the chain's execution of message m emits.
EmitOf(m) == IF m \in FailMsgs THEN ChainErrorEvent(m) ELSE OtherEvent(m)

Stage(name, ok) == [stage |-> name, ok |-> ok]

\* How many times stage `name` appears in a stage sequence.
Count(st, name) == Cardinality({i \in 1..Len(st) : st[i].stage = name})

Log(p, name, ok) == stages' = [stages EXCEPT ![p] = Append(@, Stage(name, ok))]

----------------------------------------------------------------------------
\* The local computations of simple_send_tx

\* let message_count = messages.len();
MessageCount(ms) == Len(ms)

\* Variant: the batch is cut to a fixed size of two and only the first chunk
\* is sent.
SentFirstChunk(ms) == IF Len(ms) > 2 THEN SubSeq(ms, 1, 2) ELSE ms

\* Variant: the vector is drained from its end, so the messages are sent in
\* reverse order.
SentReversed(ms) == [i \in 1..Len(ms) |-> ms[Len(ms) + 1 - i]]

\* The `messages` argument of estimate_fee_and_send_tx: the whole vector.
SentMessages(ms) == ms

\* Variant: vec![IbcEvent::default()], one placeholder whatever the count.
EventsPerTxSingle(n) == <<DefaultEvent>>

\* vec![IbcEvent::default(); message_count]
EventsPerTx(n) == [i \in 1..n |-> DefaultEvent]

\* vec![TxSyncResult { response, events: events_per_tx }]
TxSyncResults(resp, n) == << [response |-> resp, events |-> EventsPerTx(n)] >>

\* Variant: only the first slot of a result is examined.
ScanEventsFirstSlot(events) ==
    IF events # <<>> /\ Head(events).tag = "ChainError"
    THEN ErrVal("ChainError", Head(events).data)
    ELSE OkVal(0)

\* Variant: the scan does not return at the first ChainError, a later one
\* overwrites it.
RECURSIVE ScanEventsLast(_)
ScanEventsLast(events) ==
    IF events = <<>> THEN OkVal(0)
    ELSE LET later == ScanEventsLast(Tail(events))
         IN  IF later.tag = "Err" THEN later
             ELSE IF Head(events).tag = "ChainError"
                  THEN ErrVal("ChainError", Head(events).data)
                  ELSE OkVal(0)

\* Variant: a slot still holding its placeholder is reported as an error.
RECURSIVE ScanEventsFailClosed(_)
ScanEventsFailClosed(events) ==
    IF events = <<>> THEN OkVal(0)
    ELSE IF Head(events).tag = "ChainError"
         THEN ErrVal("ChainError", Head(events).data)
         ELSE IF Head(events).tag = "Default"
              THEN ErrVal("ChainError", "no event")
              ELSE ScanEventsFailClosed(Tail(events))

\* for event in result.events.iter() { if let ChainError(e) = event { return Err } }
RECURSIVE ScanEvents(_)
ScanEvents(events) ==
    IF events = <<>> THEN OkVal(0)
    ELSE IF Head(events).tag = "ChainError"
         THEN ErrVal("ChainError", Head(events).data)
         ELSE ScanEvents(Tail(events))

\* for result in tx_sync_results.iter() { ... }  Ok(())
RECURSIVE ScanResults(_)
ScanResults(results) ==
    IF results = <<>> THEN OkVal(0)
    ELSE LET r == ScanEvents(Head(results).events)
         IN  IF r.tag = "Err" THEN r ELSE ScanResults(Tail(results))

----------------------------------------------------------------------------
\* The packet codec:
\*   modules/src/applications/ics20_fungible_token_transfer/packet.rs
\* Strings are sequences of characters.  Denom, Decimal and Signer live in
\* sibling modules; their grammars follow sections 3 and 4.1 of the
\* specification.

\* Longest amount string on the wire.
MaxAmountLen == 3

\* Most digits on either side of the point of a Decimal value.
MaxDigits == 2

Digits == {"0", "1"}

\* The characters of amount strings: digits, the point, and a sign that the
\* decimal grammar does not admit.
AmountChars == Digits \cup {".", "-"}

\* The characters of an identifier.
DenomChars == {"u", "a"}

\* Denom strings on the wire: identifiers, the empty string, and strings with
\* a character outside the identifier alphabet.
DenomStrs == {<<>>, <<"u">>, <<"u", "a">>, <<"!">>, <<"u", "!">>}

\* Sender and receiver strings on the wire.
SignerStrs == {<<>>, <<"c">>}

IsDigits(s) == \A i \in 1..Len(s) : s[i] \in Digits

RECURSIVE StripLeadingZeros(_)
StripLeadingZeros(s) ==
    IF s # <<>> /\ Head(s) = "0" THEN StripLeadingZeros(Tail(s)) ELSE s

RECURSIVE StripTrailingZeros(_)
StripTrailingZeros(s) ==
    IF s # <<>> /\ s[Len(s)] = "0"
    THEN StripTrailingZeros(SubSeq(s, 1, Len(s) - 1))
    ELSE s

\* A Decimal value: the digits before the point without leading zeros (none
\* for zero) and the digits after it without trailing zeros.
Dec(i, f) == [int |-> i, frac |-> f]
NoDec == Dec(<<"?">>, <<>>)

\* Result of a parse or a conversion.
COk(v) == [tag |-> "Ok", err |-> "", val |-> v]
CErr(e, v) == [tag |-> "Err", err |-> e, val |-> v]

\* Denom::from_str: a non-empty identifier.
DenomFromStr(s) ==
    IF s # <<>> /\ \A i \in 1..Len(s) : s[i] \in DenomChars
    THEN COk(s)
    ELSE CErr("InvalidDenom", <<>>)

\* Denom::to_string
DenomToString(d) == d

\* Decimal::from_str: digits, optionally a point and more digits; no sign.
DecimalFromStr(s) ==
    LET dots == {i \in 1..Len(s) : s[i] = "."}
    IN  IF dots = {}
        THEN IF s # <<>> /\ IsDigits(s)
             THEN COk(Dec(StripLeadingZeros(s), <<>>))
             ELSE CErr("ParseDecimal", NoDec)
        ELSE IF Cardinality(dots) = 1
             THEN LET d == CHOOSE i \in dots : TRUE
                      ip == SubSeq(s, 1, d - 1)
                      fp == SubSeq(s, d + 1, Len(s))
                  IN  IF ip # <<>> /\ fp # <<>> /\ IsDigits(ip) /\ IsDigits(fp)
                      THEN COk(Dec(StripLeadingZeros(ip), StripTrailingZeros(fp)))
                      ELSE CErr("ParseDecimal", NoDec)
             ELSE CErr("ParseDecimal", NoDec)

\* Decimal::to_string: the canonical rendering.
DecimalToString(v) ==
    (IF v.int = <<>> THEN <<"0">> ELSE v.int)
        \o (IF v.frac = <<>> THEN <<>> ELSE <<".">> \o v.frac)

\* Signer: From<String> wraps the string, to_string gives it back.
SignerFrom(s) == [signer |-> s]
SignerToString(g) == g.signer

\* RawPacketData and PacketData
Raw(d, a, s, r) == [denom |-> d, amount |-> a, sender |-> s, receiver |-> r]
NoRaw == Raw(<<"?">>, <<"?">>, <<"?">>, <<"?">>)

Packet(d, a, s, r) == [token |-> [denom |-> d, amount |-> a],
                       sender |-> SignerFrom(s), receiver |-> SignerFrom(r)]
NoPacket == Packet(<<>>, NoDec, <<"?">>, <<"?">>)

\* Error::invalid_coin_amount
InvalidCoinAmount(e) == "InvalidAmount"

\* Variant: an amount that does not parse is taken as zero.
TryFromAmountOrZero(raw_pkt_data) ==
    LET denom == DenomFromStr(raw_pkt_data.denom)
        amount == DecimalFromStr(raw_pkt_data.amount)
    IN  IF denom.tag = "Err" THEN CErr(denom.err, NoPacket)
        ELSE COk([token |-> [denom |-> denom.val,
                             amount |-> IF amount.tag = "Err" THEN Dec(<<>>, <<>>)
                                                              ELSE amount.val],
                  sender |-> SignerFrom(raw_pkt_data.sender),
                  receiver |-> SignerFrom(raw_pkt_data.receiver)])

\* Variant: sender and receiver are parsed, and an empty one is refused.
TryFromCheckedSigner(raw_pkt_data) ==
    LET denom == DenomFromStr(raw_pkt_data.denom)
        amount == DecimalFromStr(raw_pkt_data.amount)
    IN  IF denom.tag = "Err" THEN CErr(denom.err, NoPacket)
        ELSE IF amount.tag = "Err" THEN CErr(InvalidCoinAmount(amount.err), NoPacket)
        ELSE IF raw_pkt_data.sender = <<>> \/ raw_pkt_data.receiver = <<>>
             THEN CErr("InvalidSigner", NoPacket)
        ELSE COk([token |-> [denom |-> denom.val, amount |-> amount.val],
                  sender |-> SignerFrom(raw_pkt_data.sender),
                  receiver |-> SignerFrom(raw_pkt_data.receiver)])

\* impl TryFrom<RawPacketData> for PacketData
TryFrom(raw_pkt_data) ==
    LET denom == DenomFromStr(raw_pkt_data.denom)
        amount == DecimalFromStr(raw_pkt_data.amount)
    IN  IF denom.tag = "Err" THEN CErr(denom.err, NoPacket)
        ELSE IF amount.tag = "Err" THEN CErr(InvalidCoinAmount(amount.err), NoPacket)
        ELSE COk([token |-> [denom |-> denom.val, amount |-> amount.val],
                  sender |-> SignerFrom(raw_pkt_data.sender),
                  receiver |-> SignerFrom(raw_pkt_data.receiver)])

\* Variant: sender and receiver change places.
FromSwapped(pkt_data) ==
    [denom |-> DenomToString(pkt_data.token.denom),
     amount |-> DecimalToString(pkt_data.token.amount),
     sender |-> SignerToString(pkt_data.receiver),
     receiver |-> SignerToString(pkt_data.sender)]

\* impl From<PacketData> for RawPacketData
From(pkt_data) ==
    [denom |-> DenomToString(pkt_data.token.denom),
     amount |-> DecimalToString(pkt_data.token.amount),
     sender |-> SignerToString(pkt_data.sender),
     receiver |-> SignerToString(pkt_data.receiver)]

\* The wire inputs and the valid PacketData values.
AmountStrs == SeqsUpTo(AmountChars, MaxAmountLen)

RawInputs == {Raw(d, a, s, r) : d \in DenomStrs, a \in AmountStrs,
                                s \in SignerStrs, r \in SignerStrs}

Decimals == {Dec(i, f) : i \in {x \in SeqsUpTo(Digits, MaxDigits) :
                                    x = <<>> \/ Head(x) # "0"},
                         f \in {x \in SeqsUpTo(Digits, MaxDigits) :
                                    x = <<>> \/ x[Len(x)] # "0"}}

ValidDenoms == {d \in DenomStrs : DenomFromStr(d).tag = "Ok"}

PacketInputs == {Packet(d, a, s, r) : d \in ValidDenoms, a \in Decimals,
                                      s \in SignerStrs, r \in SignerStrs}

\* No conversion in progress.
CodecIdle == [pc |-> "idle", raw0 |-> NoRaw, pkt0 |-> NoPacket,
              raw |-> NoRaw, res |-> CErr("", NoPacket)]

----------------------------------------------------------------------------
\* The test overrides:
\*   tools/integration-test/src/framework/overrides.rs

\* The test cases being set up.
Tests == {1, 2}

\* Result<Option<SupervisorHandle>, Error>
SupNoValue == [tag |-> "None", some |-> FALSE, handle |-> 0]
SupOk(some, h) == [tag |-> "Ok", some |-> some, handle |-> h]
SupErr == [tag |-> "Err", some |-> FALSE, handle |-> 0]

\* The set-up of one test case: whether its should_spawn_supervisor() answers
\* true, the calls of RelayerDriver::spawn_supervisor, what the driver
\* returned, what TestOverrides::spawn_supervisor returned (inner) and what
\* SupervisorOverride::spawn_supervisor returned (res).
SupState(pcv, b) == [pc |-> pcv, should_spawn |-> b, calls |-> 0,
                     driver |-> SupNoValue, inner |-> SupNoValue, res |-> SupNoValue]

\* No test case is being set up.
SupIdle == [t \in Tests |-> SupState("off", TRUE)]

----------------------------------------------------------------------------
\* Initial states

InitWith(active) ==
    /\ messages \in {[p \in Procs |-> IF p \in active THEN f[p] ELSE <<>>] :
                        f \in [active -> SeqsUpTo(Msgs, MaxMsgs)]}
    /\ pc = [p \in Procs |-> IF p \in active THEN "start" ELSE "idle"]
    /\ account = [p \in Procs |-> -1]
    /\ message_count = [p \in Procs |-> 0]
    /\ signedTx = [p \in Procs |-> NoTx]
    /\ response = [p \in Procs |-> 0]
    /\ tx_sync_results = [p \in Procs |-> <<>>]
    /\ ret = [p \in Procs |-> NoValue]
    /\ result = [p \in Procs |-> NoValue]
    /\ elapsed = [p \in Procs |-> 0]
    /\ txState = [p \in Procs |-> "None"]
    /\ stages = [p \in Procs |-> <<>>]
    /\ chainSeq = 0
    /\ nextTxId = 1
    /\ mempool = {}
    /\ chain = <<>>
    /\ rejected = {}

\* One call of simple_send_tx.
Init == InitWith({1}) /\ codec = CodecIdle /\ sup = SupIdle

----------------------------------------------------------------------------
\* simple_send_tx, lines 35-38: the RPC client and the gRPC address are built
\* from the configuration; either construction can fail.
NewClients(p) ==
    /\ pc[p] = "start"
    /\ \/ /\ pc' = [pc EXCEPT ![p] = "query"]
          /\ UNCHANGED result
       \/ /\ pc' = [pc EXCEPT ![p] = "done"]
          /\ result' = [result EXCEPT ![p] = ErrVal("Generic", "")]
    /\ UNCHANGED <<messages, account, message_count, signedTx, response, tx_sync_results,
                   ret, elapsed, txState, stages>>
    /\ UNCHANGED chainVars
    /\ UNCHANGED otherVars

\* query_account: one remote query; it returns the node's sequence at call time.
QueryAccount(p) ==
    /\ pc[p] = "query"
    /\ \E ok \in BOOLEAN :
          /\ ret' = [ret EXCEPT ![p] = IF ok THEN OkVal(chainSeq)
                                         ELSE ErrVal("NetworkError", "")]
          /\ Log(p, "query", ok)
    /\ pc' = [pc EXCEPT ![p] = "query_ret"]
    /\ UNCHANGED <<messages, account, message_count, signedTx, response, tx_sync_results,
                   result, elapsed, txState>>
    /\ UNCHANGED chainVars
    /\ UNCHANGED otherVars

\* Variant: a failed account query is swallowed and the call goes on with a
\* default account.
QueryReturnDefaultAccount(p) ==
    /\ pc[p] = "query_ret"
    /\ account' = [account EXCEPT ![p] = IF ret[p].tag = "Err" THEN 0 ELSE ret[p].val]
    /\ message_count' = [message_count EXCEPT ![p] = MessageCount(messages[p])]
    /\ pc' = [pc EXCEPT ![p] = "estimate"]
    /\ ret' = [ret EXCEPT ![p] = NoValue]
    /\ UNCHANGED <<messages, signedTx, response, tx_sync_results, result, elapsed,
                   txState, stages>>
    /\ UNCHANGED chainVars
    /\ UNCHANGED otherVars

\* Variant: the call advances the sequence it has read before using it.
QueryReturnIncrement(p) ==
    /\ pc[p] = "query_ret"
    /\ IF ret[p].tag = "Err"
       THEN /\ result' = [result EXCEPT ![p] = ret[p]]
            /\ pc' = [pc EXCEPT ![p] = "done"]
            /\ UNCHANGED <<account, message_count>>
       ELSE /\ account' = [account EXCEPT ![p] = ret[p].val + 1]
            /\ message_count' = [message_count EXCEPT ![p] = MessageCount(messages[p])]
            /\ pc' = [pc EXCEPT ![p] = "estimate"]
            /\ UNCHANGED result
    /\ ret' = [ret EXCEPT ![p] = NoValue]
    /\ UNCHANGED <<messages, signedTx, response, tx_sync_results, elapsed, txState,
                   stages>>
    /\ UNCHANGED chainVars
    /\ UNCHANGED otherVars

\* lines 40-44: `.await?.into()` and message_count.
QueryReturn(p) ==
    /\ pc[p] = "query_ret"
    /\ IF ret[p].tag = "Err"
       THEN /\ result' = [result EXCEPT ![p] = ret[p]]
            /\ pc' = [pc EXCEPT ![p] = "done"]
            /\ UNCHANGED <<account, message_count>>
       ELSE /\ account' = [account EXCEPT ![p] = ret[p].val]
            /\ message_count' = [message_count EXCEPT ![p] = MessageCount(messages[p])]
            /\ pc' = [pc EXCEPT ![p] = "estimate"]
            /\ UNCHANGED result
    /\ ret' = [ret EXCEPT ![p] = NoValue]
    /\ UNCHANGED <<messages, signedTx, response, tx_sync_results, elapsed, txState,
                   stages>>
    /\ UNCHANGED chainVars
    /\ UNCHANGED otherVars

\* estimate_fee_and_send_tx, first step: the fee simulation against the node.
EstimateFee(p) ==
    /\ pc[p] = "estimate"
    /\ \E ok \in BOOLEAN :
          /\ Log(p, "simulate", ok)
          /\ IF ok
             THEN /\ pc' = [pc EXCEPT ![p] = "sign"]
                  /\ UNCHANGED ret
             ELSE /\ pc' = [pc EXCEPT ![p] = "send_ret"]
                  /\ ret' = [ret EXCEPT ![p] = ErrVal("FeeEstimationFailed", "")]
    /\ UNCHANGED <<messages, account, message_count, signedTx, response,
                   tx_sync_results, result, elapsed, txState>>
    /\ UNCHANGED chainVars
    /\ UNCHANGED otherVars

\* estimate_fee_and_send_tx, second step: one transaction is signed with the
\* account's sequence over the messages it was given.
SignTx(p) ==
    /\ pc[p] = "sign"
    /\ signedTx' = [signedTx EXCEPT
                      ![p] = Tx(nextTxId, p, account[p], SentMessages(messages[p]))]
    /\ nextTxId' = nextTxId + 1
    /\ Log(p, "sign", TRUE)
    /\ pc' = [pc EXCEPT ![p] = "broadcast"]
    /\ UNCHANGED <<messages, account, message_count, response, tx_sync_results,
                   ret, result, elapsed, txState>>
    /\ UNCHANGED <<chainSeq, mempool, chain, rejected>>
    /\ UNCHANGED otherVars

\* Variant: the broadcast reports a failure although the node took the
\* transaction into its pool.
BroadcastTxLostReply(p) ==
    /\ pc[p] = "broadcast"
    /\ \E ok \in BOOLEAN :
          /\ Log(p, "broadcast", ok)
          /\ mempool' = mempool \cup {signedTx[p]}
          /\ IF ok
             THEN /\ ret' = [ret EXCEPT ![p] = OkVal(signedTx[p].id)]
                  /\ txState' = [txState EXCEPT ![p] = "Broadcast"]
             ELSE /\ ret' = [ret EXCEPT ![p] = ErrVal("BroadcastFailed", "")]
                  /\ UNCHANGED txState
    /\ pc' = [pc EXCEPT ![p] = "send_ret"]
    /\ UNCHANGED <<messages, account, message_count, signedTx, response,
                   tx_sync_results, result, elapsed>>
    /\ UNCHANGED <<chainSeq, nextTxId, chain, rejected>>
    /\ UNCHANGED otherVars

\* estimate_fee_and_send_tx, last step: the signed transaction is broadcast.
\* A refused broadcast leaves nothing in the node's pool.
BroadcastTx(p) ==
    /\ pc[p] = "broadcast"
    /\ \E ok \in BOOLEAN :
          /\ Log(p, "broadcast", ok)
          /\ IF ok
             THEN /\ mempool' = mempool \cup {signedTx[p]}
                  /\ ret' = [ret EXCEPT ![p] = OkVal(signedTx[p].id)]
                  /\ txState' = [txState EXCEPT ![p] = "Broadcast"]
             ELSE /\ ret' = [ret EXCEPT ![p] = ErrVal("BroadcastFailed", "")]
                  /\ UNCHANGED <<mempool, txState>>
    /\ pc' = [pc EXCEPT ![p] = "send_ret"]
    /\ UNCHANGED <<messages, account, message_count, signedTx, response,
                   tx_sync_results, result, elapsed>>
    /\ UNCHANGED <<chainSeq, nextTxId, chain, rejected>>
    /\ UNCHANGED otherVars

\* Variant: a failed estimate_fee_and_send_tx is called once more.
SendTxReturnRetry(p) ==
    /\ pc[p] = "send_ret"
    /\ IF ret[p].tag = "Err"
       THEN IF Count(stages[p], "simulate") < 2
            THEN /\ pc' = [pc EXCEPT ![p] = "estimate"]
                 /\ UNCHANGED <<result, response>>
            ELSE /\ result' = [result EXCEPT ![p] = ret[p]]
                 /\ pc' = [pc EXCEPT ![p] = "done"]
                 /\ UNCHANGED response
       ELSE /\ response' = [response EXCEPT ![p] = ret[p].val]
            /\ pc' = [pc EXCEPT ![p] = "build"]
            /\ UNCHANGED result
    /\ ret' = [ret EXCEPT ![p] = NoValue]
    /\ UNCHANGED <<messages, account, message_count, signedTx, tx_sync_results,
                   elapsed, txState, stages>>
    /\ UNCHANGED chainVars
    /\ UNCHANGED otherVars

\* Variant: the error of estimate_fee_and_send_tx is dropped (no `?`) and the
\* call goes on to the commit wait with an empty response.
SendTxReturnNoCheck(p) ==
    /\ pc[p] = "send_ret"
    /\ response' = [response EXCEPT ![p] = ret[p].val]
    /\ pc' = [pc EXCEPT ![p] = "build"]
    /\ ret' = [ret EXCEPT ![p] = NoValue]
    /\ UNCHANGED <<messages, account, message_count, signedTx, tx_sync_results,
                   result, elapsed, txState, stages>>
    /\ UNCHANGED chainVars
    /\ UNCHANGED otherVars

\* lines 46-55: `let response = estimate_fee_and_send_tx(...).await?;`
SendTxReturn(p) ==
    /\ pc[p] = "send_ret"
    /\ IF ret[p].tag = "Err"
       THEN /\ result' = [result EXCEPT ![p] = ret[p]]
            /\ pc' = [pc EXCEPT ![p] = "done"]
            /\ UNCHANGED response
       ELSE /\ response' = [response EXCEPT ![p] = ret[p].val]
            /\ pc' = [pc EXCEPT ![p] = "build"]
            /\ UNCHANGED result
    /\ ret' = [ret EXCEPT ![p] = NoValue]
    /\ UNCHANGED <<messages, account, message_count, signedTx, tx_sync_results,
                   elapsed, txState, stages>>
    /\ UNCHANGED chainVars
    /\ UNCHANGED otherVars

\* lines 57-64: events_per_tx, tx_sync_result and tx_sync_results.
BuildTxSyncResults(p) ==
    /\ pc[p] = "build"
    /\ tx_sync_results' = [tx_sync_results EXCEPT
                             ![p] = TxSyncResults(response[p], message_count[p])]
    /\ pc' = [pc EXCEPT ![p] = "wait_call"]
    /\ UNCHANGED <<messages, account, message_count, signedTx, response, ret,
                   result, elapsed, txState, stages>>
    /\ UNCHANGED chainVars
    /\ UNCHANGED otherVars

----------------------------------------------------------------------------
\* The chain

\* Variant: the chain does not check the sequence of a transaction.
DeliverAnySequence(t) ==
    /\ t \in mempool
    /\ mempool' = mempool \ {t}
    /\ chain' = Append(chain,
                   [tx |-> t,
                    events |-> [i \in 1..Len(t.msgs) |-> EmitOf(t.msgs[i])]])
    /\ chainSeq' = chainSeq + 1
    /\ UNCHANGED <<rejected, nextTxId>>
    /\ UNCHANGED procVars
    /\ UNCHANGED otherVars

\* The node delivers a pooled transaction: it enters a block when its sequence
\* is the account's current one, and is refused otherwise.
Deliver(t) ==
    /\ t \in mempool
    /\ mempool' = mempool \ {t}
    /\ IF t.seq = chainSeq
       THEN /\ chain' = Append(chain,
                          [tx |-> t,
                           events |-> [i \in 1..Len(t.msgs) |-> EmitOf(t.msgs[i])]])
            /\ chainSeq' = chainSeq + 1
            /\ UNCHANGED rejected
       ELSE /\ rejected' = rejected \cup {t}
            /\ UNCHANGED <<chain, chainSeq>>
    /\ UNCHANGED nextTxId
    /\ UNCHANGED procVars
    /\ UNCHANGED otherVars

Included(id) == \E i \in 1..Len(chain) : chain[i].tx.id = id

EventsOf(id) == chain[CHOOSE i \in 1..Len(chain) : chain[i].tx.id = id].events

----------------------------------------------------------------------------
\* wait_for_block_commits

\* Event data of an included transaction merged into a result's slots, in
\* message order; a slot whose event the chain-side parse did not produce
\* keeps its placeholder.
Merge(r, filled) ==
    LET emitted == EventsOf(r.response)
    IN  [r EXCEPT !.events =
            [i \in 1..Len(r.events) |->
                IF i \in filled /\ i <= Len(emitted) THEN emitted[i] ELSE r.events[i]]]

AllIncluded(results) == \A i \in 1..Len(results) : Included(results[i].response)

\* The wait starts its clock.
WaitBegin(p) ==
    /\ pc[p] = "wait_call"
    /\ elapsed' = [elapsed EXCEPT ![p] = 0]
    /\ txState' = [txState EXCEPT ![p] = "Pending"]
    /\ pc' = [pc EXCEPT ![p] = "wait"]
    /\ UNCHANGED <<messages, account, message_count, signedTx, response,
                   tx_sync_results, ret, result, stages>>
    /\ UNCHANGED chainVars
    /\ UNCHANGED otherVars

\* One poll iteration before the deadline: inclusion is observed and the event
\* data merged, or the clock advances.
WaitPoll(p) ==
    /\ pc[p] = "wait"
    /\ elapsed[p] < RpcTimeout
    /\ IF AllIncluded(tx_sync_results[p])
       THEN /\ \E filled \in SUBSET (1..MaxMsgs) :
                  tx_sync_results' = [tx_sync_results EXCEPT
                      ![p] = [i \in 1..Len(@) |-> Merge(@[i], filled)]]
            /\ txState' = [txState EXCEPT ![p] = "Committed"]
            /\ ret' = [ret EXCEPT ![p] = OkVal(0)]
            /\ Log(p, "wait", TRUE)
            /\ pc' = [pc EXCEPT ![p] = "wait_ret"]
            /\ UNCHANGED elapsed
       ELSE /\ elapsed' = [elapsed EXCEPT ![p] = @ + 1]
            /\ UNCHANGED <<tx_sync_results, txState, ret, stages, pc>>
    /\ UNCHANGED <<messages, account, message_count, signedTx, response, result>>
    /\ UNCHANGED chainVars
    /\ UNCHANGED otherVars

\* The deadline has passed: the wait gives up.
WaitTimeout(p) ==
    /\ pc[p] = "wait"
    /\ elapsed[p] >= RpcTimeout
    /\ txState' = [txState EXCEPT ![p] = "TimedOut"]
    /\ ret' = [ret EXCEPT ![p] = ErrVal("CommitTimeout", "")]
    /\ Log(p, "wait", FALSE)
    /\ pc' = [pc EXCEPT ![p] = "wait_ret"]
    /\ UNCHANGED <<messages, account, message_count, signedTx, response,
                   tx_sync_results, result, elapsed>>
    /\ UNCHANGED chainVars
    /\ UNCHANGED otherVars

\* Variant: a timed-out wait is started once more.
WaitReturnRetry(p) ==
    /\ pc[p] = "wait_ret"
    /\ IF ret[p].tag = "Err"
       THEN IF Count(stages[p], "wait") < 2
            THEN /\ pc' = [pc EXCEPT ![p] = "wait_call"]
                 /\ UNCHANGED result
            ELSE /\ result' = [result EXCEPT ![p] = ret[p]]
                 /\ pc' = [pc EXCEPT ![p] = "done"]
       ELSE /\ pc' = [pc EXCEPT ![p] = "classify"]
            /\ UNCHANGED result
    /\ ret' = [ret EXCEPT ![p] = NoValue]
    /\ UNCHANGED <<messages, account, message_count, signedTx, response,
                   tx_sync_results, elapsed, txState, stages>>
    /\ UNCHANGED chainVars
    /\ UNCHANGED otherVars

\* Variant: the wait's error is mapped to the error of the send stage.
WaitReturnAsBroadcastFailed(p) ==
    /\ pc[p] = "wait_ret"
    /\ IF ret[p].tag = "Err"
       THEN /\ result' = [result EXCEPT ![p] = ErrVal("BroadcastFailed", "")]
            /\ pc' = [pc EXCEPT ![p] = "done"]
       ELSE /\ pc' = [pc EXCEPT ![p] = "classify"]
            /\ UNCHANGED result
    /\ ret' = [ret EXCEPT ![p] = NoValue]
    /\ UNCHANGED <<messages, account, message_count, signedTx, response,
                   tx_sync_results, elapsed, txState, stages>>
    /\ UNCHANGED chainVars
    /\ UNCHANGED otherVars

\* Variant: a call whose wait timed out withdraws its transaction from the
\* node's pool before it returns.
WaitReturnWithdraw(p) ==
    /\ pc[p] = "wait_ret"
    /\ IF ret[p].tag = "Err"
       THEN /\ result' = [result EXCEPT ![p] = ret[p]]
            /\ pc' = [pc EXCEPT ![p] = "done"]
            /\ mempool' = mempool \ {signedTx[p]}
       ELSE /\ pc' = [pc EXCEPT ![p] = "classify"]
            /\ UNCHANGED <<result, mempool>>
    /\ ret' = [ret EXCEPT ![p] = NoValue]
    /\ UNCHANGED <<messages, account, message_count, signedTx, response,
                   tx_sync_results, elapsed, txState, stages>>
    /\ UNCHANGED <<chainSeq, nextTxId, chain, rejected>>
    /\ UNCHANGED otherVars

\* Variant: the error of the wait is dropped (no `?`) and the events are
\* scanned all the same.
WaitReturnNoCheck(p) ==
    /\ pc[p] = "wait_ret"
    /\ pc' = [pc EXCEPT ![p] = "classify"]
    /\ ret' = [ret EXCEPT ![p] = NoValue]
    /\ UNCHANGED <<messages, account, message_count, signedTx, response,
                   tx_sync_results, result, elapsed, txState, stages>>
    /\ UNCHANGED chainVars
    /\ UNCHANGED otherVars

\* lines 66-73: `wait_for_block_commits(...).await?;`
WaitReturn(p) ==
    /\ pc[p] = "wait_ret"
    /\ IF ret[p].tag = "Err"
       THEN /\ result' = [result EXCEPT ![p] = ret[p]]
            /\ pc' = [pc EXCEPT ![p] = "done"]
       ELSE /\ pc' = [pc EXCEPT ![p] = "classify"]
            /\ UNCHANGED result
    /\ ret' = [ret EXCEPT ![p] = NoValue]
    /\ UNCHANGED <<messages, account, message_count, signedTx, response,
                   tx_sync_results, elapsed, txState, stages>>
    /\ UNCHANGED chainVars
    /\ UNCHANGED otherVars

\* lines 75-83: the scan of every result's events, and Ok(()).
Classify(p) ==
    /\ pc[p] = "classify"
    /\ result' = [result EXCEPT ![p] = ScanResults(tx_sync_results[p])]
    /\ Log(p, "classify", TRUE)
    /\ pc' = [pc EXCEPT ![p] = "done"]
    /\ UNCHANGED <<messages, account, message_count, signedTx, response,
                   tx_sync_results, ret, elapsed, txState>>
    /\ UNCHANGED chainVars
    /\ UNCHANGED otherVars

----------------------------------------------------------------------------
Step(p) ==
    \/ NewClients(p)
    \/ QueryAccount(p)
    \/ QueryReturn(p)
    \/ EstimateFee(p)
    \/ SignTx(p)
    \/ BroadcastTx(p)
    \/ SendTxReturn(p)
    \/ BuildTxSyncResults(p)
    \/ WaitBegin(p)
    \/ WaitPoll(p)
    \/ WaitTimeout(p)
    \/ WaitReturn(p)
    \/ Classify(p)

Next ==
    \/ \E p \in Procs : Step(p)
    \/ \E t \in mempool : Deliver(t)

Spec == Init /\ [][Next]_vars

\* The commit wait's poll and clock steps are taken as long as the wait runs.
FairSpec == Spec /\ \A p \in Procs : WF_vars(WaitPoll(p) \/ WaitTimeout(p))

----------------------------------------------------------------------------
\* The caller

\* The batches of the calls when a second call is in play.
ConcBatches == {<<"a">>, <<"b", "x">>}

\* Two calls of simple_send_tx for the same credential, started together with
\* nothing serializing them.
ConcInit ==
    /\ InitWith(Procs)
    /\ codec = CodecIdle
    /\ sup = SupIdle
    /\ \A p \in Procs : messages[p] \in ConcBatches

ConcSpec == ConcInit /\ [][Next]_vars

\* The caller reacts to the error call p returned by submitting the same
\* messages again, as call q; the new call resolves the account afresh.
Resubmit(p, q) ==
    /\ pc[p] = "done"
    /\ result[p].tag = "Err"
    /\ pc[q] = "idle"
    /\ pc' = [pc EXCEPT ![q] = "start"]
    /\ messages' = [messages EXCEPT ![q] = messages[p]]
    /\ UNCHANGED <<account, message_count, signedTx, response, tx_sync_results,
                   ret, result, elapsed, txState, stages>>
    /\ UNCHANGED chainVars
    /\ UNCHANGED otherVars

RetryNext ==
    \/ \E p \in Procs : Step(p)
    \/ \E t \in mempool : Deliver(t)
    \/ \E p, q \in Procs : Resubmit(p, q)

\* One call of one of the batches.
RetryInit ==
    /\ InitWith({1})
    /\ messages[1] \in ConcBatches
    /\ codec = CodecIdle
    /\ sup = SupIdle

\* One call, and a caller that resubmits after an error.
RetrySpec == RetryInit /\ [][RetryNext]_vars

----------------------------------------------------------------------------
\* Conversions of the packet codec

\* A conversion starts from a wire value or from a valid PacketData value.
CodecInit ==
    /\ InitWith({})
    /\ sup = SupIdle
    /\ \/ \E r \in RawInputs :
             codec = [pc |-> "wire", raw0 |-> r, pkt0 |-> NoPacket,
                      raw |-> r, res |-> CErr("", NoPacket)]
       \/ \E k \in PacketInputs :
             codec = [pc |-> "domain", raw0 |-> NoRaw, pkt0 |-> k,
                      raw |-> NoRaw, res |-> COk(k)]

\* PacketData::try_from(raw), on the wire input or on an encoded value.
Decode ==
    /\ codec.pc \in {"wire", "encoded"}
    /\ codec' = [codec EXCEPT !.res = TryFrom(codec.raw),
                              !.pc = IF codec.pc = "wire" THEN "decoded"
                                                          ELSE "redecoded"]
    /\ UNCHANGED <<procVars, chainVars, sup>>

\* RawPacketData::from(pkt), on the PacketData input or on a decoded value.
Encode ==
    /\ \/ codec.pc = "domain"
       \/ codec.pc = "decoded" /\ codec.res.tag = "Ok"
    /\ codec' = [codec EXCEPT !.raw = From(codec.res.val), !.pc = "encoded"]
    /\ UNCHANGED <<procVars, chainVars, sup>>

CodecNext == Decode \/ Encode

CodecSpec == CodecInit /\ [][CodecNext]_vars

----------------------------------------------------------------------------
\* Supervisor set-up of the test cases

\* Each test case answers should_spawn_supervisor() with true (the default
\* body) or with false (its own body), and does not override spawn_supervisor.
SupInit ==
    /\ InitWith({})
    /\ codec = CodecIdle
    /\ sup \in [Tests -> {SupState("setup", b) : b \in BOOLEAN}]

\* fn should_spawn_supervisor(&self) -> bool
ShouldSpawnSupervisor(t) == sup[t].should_spawn

\* impl SupervisorOverride for Test: the call of
\* TestOverrides::spawn_supervisor(self, relayer).
OverrideCall(t) ==
    /\ sup[t].pc = "setup"
    /\ sup' = [sup EXCEPT ![t].pc = "default"]
    /\ UNCHANGED <<procVars, chainVars, codec>>

\* Variant: the supervisor is spawned without asking
\* should_spawn_supervisor().
SpawnSupervisorAlways(t) ==
    /\ sup[t].pc = "default"
    /\ sup' = [sup EXCEPT ![t].pc = "driver"]
    /\ UNCHANGED <<procVars, chainVars, codec>>

\* TestOverrides::spawn_supervisor: if self.should_spawn_supervisor() { .. }
\* else { Ok(None) }
SpawnSupervisor(t) ==
    /\ sup[t].pc = "default"
    /\ IF ShouldSpawnSupervisor(t)
       THEN sup' = [sup EXCEPT ![t].pc = "driver"]
       ELSE sup' = [sup EXCEPT ![t].inner = SupOk(FALSE, 0), ![t].pc = "default_ret"]
    /\ UNCHANGED <<procVars, chainVars, codec>>

\* RelayerDriver::spawn_supervisor: it gives a handle or fails.
DriverSpawn(t) ==
    /\ sup[t].pc = "driver"
    /\ \E ok \in BOOLEAN :
          sup' = [sup EXCEPT ![t].calls = @ + 1,
                             ![t].driver = IF ok THEN SupOk(TRUE, t) ELSE SupErr,
                             ![t].pc = "driver_ret"]
    /\ UNCHANGED <<procVars, chainVars, codec>>

\* let handle = relayer.spawn_supervisor()?; Ok(Some(handle))
SpawnSupervisorReturn(t) ==
    /\ sup[t].pc = "driver_ret"
    /\ sup' = [sup EXCEPT ![t].inner = IF sup[t].driver.tag = "Err"
                                         THEN SupErr
                                         ELSE SupOk(TRUE, sup[t].driver.handle),
                          ![t].pc = "default_ret"]
    /\ UNCHANGED <<procVars, chainVars, codec>>

\* impl SupervisorOverride for Test: the value of the delegated call is the
\* value returned.
OverrideReturn(t) ==
    /\ sup[t].pc = "default_ret"
    /\ sup' = [sup EXCEPT ![t].res = sup[t].inner, ![t].pc = "done"]
    /\ UNCHANGED <<procVars, chainVars, codec>>

SupNext ==
    \E t \in Tests :
        \/ OverrideCall(t)
        \/ SpawnSupervisor(t)
        \/ DriverSpawn(t)
        \/ SpawnSupervisorReturn(t)
        \/ OverrideReturn(t)

SupSpec == SupInit /\ [][SupNext]_vars

----------------------------------------------------------------------------
\* Properties

\* Every event slot of the call's results, in scan order.
RECURSIVE AllEvents(_)
AllEvents(results) ==
    IF results = <<>> THEN <<>>
    ELSE Head(results).events \o AllEvents(Tail(results))

Slots(p) == AllEvents(tx_sync_results[p])

ChainErrorSlots(p) == {i \in 1..Len(Slots(p)) : Slots(p)[i].tag = "ChainError"}

FirstChainErrorSlot(p) ==
    CHOOSE i \in ChainErrorSlots(p) : \A j \in ChainErrorSlots(p) : i <= j

\* The call has returned after its transaction was committed.
ReturnedCommitted(p) == pc[p] = "done" /\ txState[p] = "Committed"

Failed(p, name) == \E i \in 1..Len(stages[p]) :
                      stages[p][i].stage = name /\ ~stages[p][i].ok

Succeeded(p, name) == \E i \in 1..Len(stages[p]) :
                         stages[p][i].stage = name /\ stages[p][i].ok

\* The transactions of call p the node has ever accepted.
TxsOf(p) == {t \in mempool \cup rejected : t.from = p}
            \cup {chain[i].tx : i \in {j \in 1..Len(chain) : chain[j].tx.from = p}}

\* C1: a committed submission with a ChainError event in any slot returns an
\* error, never success, whichever slot holds it and whatever the others hold.
C1_ChainErrorFails ==
    \A p \in Procs :
        (ReturnedCommitted(p) /\ ChainErrorSlots(p) # {}) => result[p].tag = "Err"

\* A committed call whose only ChainError sits in the last of several slots.
C1_Witness ==
    \E p \in Procs :
        /\ ReturnedCommitted(p)
        /\ Len(Slots(p)) >= 2
        /\ ChainErrorSlots(p) = {Len(Slots(p))}
        /\ result[p].tag = "Err"

\* C2: with several ChainError slots the returned error carries the cause of
\* the ChainError with the smallest slot index.
C2_FirstChainErrorReported ==
    \A p \in Procs :
        (ReturnedCommitted(p) /\ ChainErrorSlots(p) # {}) =>
            result[p] = ErrVal("ChainError", Slots(p)[FirstChainErrorSlot(p)].data)

\* Two ChainError slots with different causes, the first not in slot 1.
C2_Witness ==
    \E p \in Procs :
        /\ ReturnedCommitted(p)
        /\ \E i, j \in ChainErrorSlots(p) :
              i > 1 /\ i < j /\ Slots(p)[i].data # Slots(p)[j].data
        /\ result[p].tag = "Err"

\* C3: a committed submission without any ChainError slot is a success; this
\* covers slots that all kept their placeholder, and a batch of zero slots.
C3_NoChainErrorSucceeds ==
    \A p \in Procs :
        (ReturnedCommitted(p) /\ ChainErrorSlots(p) = {}) => result[p] = OkVal(0)

\* A committed call of at least two messages whose slots all kept the
\* placeholder.
C3_Witness ==
    \E p \in Procs :
        /\ ReturnedCommitted(p)
        /\ Len(Slots(p)) >= 2
        /\ \A i \in 1..Len(Slots(p)) : Slots(p)[i] = DefaultEvent
        /\ result[p].tag = "Ok"

\* C4: within one submission the transaction is broadcast at most once, on
\* every path (failed broadcast, commit timeout, chain error).
C4_BroadcastAtMostOnce ==
    \A p \in Procs : Count(stages[p], "broadcast") <= 1

\* A call that returned the commit timeout after its one broadcast.
C4_Witness ==
    \E p \in Procs :
        /\ pc[p] = "done"
        /\ result[p] = ErrVal("CommitTimeout", "")
        /\ Count(stages[p], "broadcast") = 1

Terminal == {"Committed", "TimedOut"}

\* C5: a transaction enters Committed or TimedOut only from Pending and never
\* leaves it; with the poll and clock steps taken fairly, a Pending
\* transaction reaches one of the two.
C5_WaitTerminates ==
    /\ [][\A p \in Procs :
            /\ txState[p] \in Terminal => txState'[p] = txState[p]
            /\ (txState'[p] \in Terminal /\ txState[p] \notin Terminal)
                  => txState[p] = "Pending"]_vars
    /\ \A p \in Procs : (txState[p] = "Pending") ~> (txState[p] \in Terminal)

\* A wait that ran its clock to the deadline and timed out.
C5_Witness ==
    \E p \in Procs : txState[p] = "TimedOut" /\ elapsed[p] = RpcTimeout

\* C6: a wait that ends without observing inclusion returns CommitTimeout and
\* never BroadcastFailed; a failed broadcast returns BroadcastFailed and never
\* CommitTimeout.
C6_TimeoutDistinct ==
    \A p \in Procs :
        /\ (pc[p] = "done" /\ txState[p] = "TimedOut")
              => (result[p].tag = "Err" /\ result[p].kind = "CommitTimeout")
        /\ (pc[p] = "done" /\ Failed(p, "broadcast"))
              => (result[p].tag = "Err" /\ result[p].kind = "BroadcastFailed")
        /\ (pc[p] = "done" /\ result[p].kind = "CommitTimeout") => Failed(p, "wait")
        /\ (pc[p] = "done" /\ result[p].kind = "BroadcastFailed")
              => Failed(p, "broadcast")

\* A call that returned after its wait timed out.
C6_Witness ==
    \E p \in Procs :
        /\ pc[p] = "done"
        /\ txState[p] = "TimedOut"
        /\ ~Included(response[p])
        /\ result[p].kind = "CommitTimeout"

\* C7: when the fee simulation fails the call returns an error; nothing is
\* signed or broadcast, and no wait or classification follows.
C7_FeeFailureAborts ==
    \A p \in Procs :
        Failed(p, "simulate") =>
            /\ Count(stages[p], "sign") = 0
            /\ Count(stages[p], "broadcast") = 0
            /\ Count(stages[p], "wait") = 0
            /\ Count(stages[p], "classify") = 0
            /\ signedTx[p] = NoTx
            /\ TxsOf(p) = {}
            /\ pc[p] \in {"send_ret", "done"}
            /\ pc[p] = "done" => result[p] = ErrVal("FeeEstimationFailed", "")

\* A call that returned after its fee simulation failed.
C7_Witness ==
    \E p \in Procs :
        /\ pc[p] = "done"
        /\ Failed(p, "simulate")
        /\ result[p].tag = "Err"

\* C8: each remote stage runs at most once; a failed stage is the last stage
\* of the call and its error is what the call returns; a failed account query
\* is followed by no simulation, signing or broadcast.
C8_NoRetries ==
    \A p \in Procs :
        /\ \A name \in {"query", "simulate", "broadcast"} :
              Count(stages[p], name) <= 1
        /\ \A i \in 1..Len(stages[p]) :
              ~stages[p][i].ok =>
                  /\ i = Len(stages[p])
                  /\ pc[p] \in {"query_ret", "send_ret", "wait_ret", "done"}
                  /\ pc[p] = "done" => result[p].tag = "Err"
        /\ Failed(p, "query") =>
              /\ stages[p] = <<Stage("query", FALSE)>>
              /\ account[p] = -1
              /\ signedTx[p] = NoTx
              /\ TxsOf(p) = {}

\* A call that returned the error of its failed account query.
C8_Witness ==
    \E p \in Procs :
        /\ pc[p] = "done"
        /\ Failed(p, "query")
        /\ result[p] = ErrVal("NetworkError", "")

\* C9: one submission produces one transaction carrying all the supplied
\* messages in the supplied order, and one TxSyncResult is waited on.
C9_OneTransaction ==
    \A p \in Procs :
        /\ Cardinality(TxsOf(p)) <= 1
        /\ Count(stages[p], "sign") <= 1
        /\ \A t \in TxsOf(p) : t = signedTx[p]
        /\ signedTx[p] # NoTx => signedTx[p].msgs = messages[p]
        /\ Succeeded(p, "broadcast") => Cardinality(TxsOf(p)) = 1
        /\ pc[p] \in {"wait_call", "wait", "wait_ret", "classify"} =>
              /\ Len(tx_sync_results[p]) = 1
              /\ tx_sync_results[p][1].response = signedTx[p].id

\* A call of the largest batch waiting on its one transaction.
C9_Witness ==
    \E p \in Procs :
        /\ pc[p] = "wait"
        /\ Len(messages[p]) >= 3
        /\ Cardinality(TxsOf(p)) = 1
        /\ Len(tx_sync_results[p]) = 1

\* C10: after a successful broadcast and before the commit wait begins, the
\* events of the outcome are message_count placeholders, message_count being
\* the number of messages supplied.
C10_PlaceholdersPerMessage ==
    \A p \in Procs :
        pc[p] = "wait_call" =>
            /\ Len(tx_sync_results[p]) = 1
            /\ Len(tx_sync_results[p][1].events) = Len(messages[p])
            /\ \A i \in 1..Len(tx_sync_results[p][1].events) :
                  tx_sync_results[p][1].events[i] = DefaultEvent

\* A call of at least two messages about to start its wait.
C10_Witness ==
    \E p \in Procs :
        /\ pc[p] = "wait_call"
        /\ Len(messages[p]) >= 2
        /\ Len(tx_sync_results[p][1].events) = Len(messages[p])

\* C11: the events of a committed transaction batching n messages still have
\* length n, and slot i holds the event message i emitted or the placeholder:
\* the commit wait does not reorder, drop or add slots.
C11_SlotsFollowMessages ==
    \A p \in Procs :
        txState[p] = "Committed" =>
            /\ Len(tx_sync_results[p]) = 1
            /\ Len(tx_sync_results[p][1].events) = Len(messages[p])
            /\ \A i \in 1..Len(tx_sync_results[p][1].events) :
                  tx_sync_results[p][1].events[i]
                      \in {DefaultEvent, EmitOf(messages[p][i])}

\* A committed batch of three different messages with every slot filled.
C11_Witness ==
    \E p \in Procs :
        /\ txState[p] = "Committed"
        /\ Len(messages[p]) = 3
        /\ Cardinality({messages[p][i] : i \in 1..3}) = 3
        /\ \A i \in 1..3 : tx_sync_results[p][1].events[i] = EmitOf(messages[p][i])

\* C13: a call reads the account's sequence from the node once, right before
\* the assembly, signs one transaction with the value it read, and neither
\* advances nor stores it: the chain's sequence changes only when the chain
\* accepts a transaction.
C13_SequenceReadOnce ==
    /\ [](\A p \in Procs :
            /\ Count(stages[p], "query") <= 1
            /\ Count(stages[p], "sign") <= 1
            /\ signedTx[p] # NoTx => signedTx[p].seq = account[p]
            /\ \A i \in 1..Len(stages[p]) :
                  stages[p][i].stage = "simulate" =>
                      i = 2 /\ stages[p][1] = Stage("query", TRUE))
    /\ [][/\ \A p \in Procs :
              /\ (pc[p] = "query" /\ pc'[p] = "query_ret" /\ ret'[p].tag = "Ok")
                    => ret'[p].val = chainSeq
              /\ (pc[p] = "query_ret" /\ pc'[p] = "estimate")
                    => account'[p] = ret[p].val
              /\ account[p] # -1 => account'[p] = account[p]
          /\ chainSeq' # chainSeq =>
              /\ chainSeq' = chainSeq + 1
              /\ Len(chain') = Len(chain) + 1
              /\ chain'[Len(chain')].tx.seq = chainSeq
              /\ procVars' = procVars]_vars

\* The call's transaction, signed with the sequence the call read, has been
\* accepted, and the chain has moved the sequence by one.
C13_Witness ==
    \E p \in Procs :
        /\ Included(signedTx[p].id)
        /\ signedTx[p].seq = account[p]
        /\ chainSeq = account[p] + 1

StageOrder == <<"query", "simulate", "sign", "broadcast", "wait", "classify">>

\* C19: the stages of a call run in the order account query, fee estimation
\* and assembly, broadcast, commit wait, classification; the events are
\* scanned only after the wait returned successfully; the call returns Ok only
\* if every stage succeeded and no event is a ChainError, and a timed-out wait
\* returns its error with no event examined.
C19_StageOrder ==
    \A p \in Procs :
        /\ Len(stages[p]) <= Len(StageOrder)
        /\ \A i \in 1..Len(stages[p]) : stages[p][i].stage = StageOrder[i]
        /\ Count(stages[p], "classify") > 0 => Succeeded(p, "wait")
        /\ result[p].tag = "Ok" =>
              /\ Len(stages[p]) = Len(StageOrder)
              /\ \A i \in 1..Len(stages[p]) : stages[p][i].ok
              /\ ChainErrorSlots(p) = {}
        /\ Failed(p, "wait") =>
              /\ Count(stages[p], "classify") = 0
              /\ pc[p] \in {"wait_ret", "done"}
              /\ pc[p] = "done" => result[p] = ErrVal("CommitTimeout", "")

\* A call that went through all the stages and returned Ok.
C19_Witness ==
    \E p \in Procs :
        /\ pc[p] = "done"
        /\ result[p].tag = "Ok"
        /\ Len(stages[p]) = Len(StageOrder)
        /\ Len(messages[p]) >= 2

Signed(p) == signedTx[p] # NoTx

\* C12: two concurrent calls for one credential can resolve and sign with the
\* same sequence; of two transactions signed with the same sequence the chain
\* accepts at most one, and once both are delivered it has refused the other.
C12_CollisionOneAccepted ==
    \A p, q \in Procs :
        (p # q /\ Signed(p) /\ Signed(q) /\ signedTx[p].seq = signedTx[q].seq) =>
            /\ ~(Included(signedTx[p].id) /\ Included(signedTx[q].id))
            /\ (Succeeded(p, "broadcast") /\ Succeeded(q, "broadcast")
                /\ signedTx[p] \notin mempool /\ signedTx[q] \notin mempool)
                  => (Included(signedTx[p].id) /\ signedTx[q] \in rejected)
                     \/ (Included(signedTx[q].id) /\ signedTx[p] \in rejected)

\* Both calls signed with the same sequence; the chain took one transaction
\* and refused the other.
C12_Witness ==
    \E p, q \in Procs :
        /\ p # q
        /\ Signed(p) /\ Signed(q)
        /\ account[p] = account[q]
        /\ signedTx[p].seq = signedTx[q].seq
        /\ Included(signedTx[p].id)
        /\ signedTx[q] \in rejected

ReturnedTimeout(p) == pc[p] = "done" /\ result[p] = ErrVal("CommitTimeout", "")

\* C14: the transaction of a call that returned CommitTimeout is still with
\* the node: it stays in the pool until the chain delivers it, so it can enter
\* a block after the call returned, and a resubmission of the same messages
\* with a freshly resolved sequence can be committed as well.
C14_TimedOutTxStaysLive ==
    /\ [](\A p \in Procs : ReturnedTimeout(p) => signedTx[p] \in TxsOf(p))
    /\ [][\A p \in Procs :
            (ReturnedTimeout(p) /\ signedTx[p] \in mempool) =>
                \/ signedTx[p] \in mempool'
                \/ Included(signedTx[p].id)'
                \/ signedTx[p] \in rejected']_vars

\* The first call returned CommitTimeout, the caller resubmitted the same
\* messages, the second call read the next sequence, and both transactions are
\* in blocks.
C14_Witness ==
    \E p, q \in Procs :
        /\ p # q
        /\ ReturnedTimeout(p)
        /\ messages[q] = messages[p]
        /\ Len(messages[p]) >= 1
        /\ account[q] = account[p] + 1
        /\ Included(signedTx[p].id)
        /\ Included(signedTx[q].id)

\* C15: the transaction of a call whose broadcast failed never reaches the
\* node's pool or a block and does not consume the sequence (the chain's
\* sequence counts the accepted transactions of the other calls only), so
\* another call signing with the same sequence is not refused for it.
C15_BroadcastFailedNotIncluded ==
    \A p \in Procs :
        Failed(p, "broadcast") =>
            /\ TxsOf(p) = {}
            /\ ~Included(signedTx[p].id)
            /\ chainSeq = Cardinality({i \in 1..Len(chain) : chain[i].tx.from # p})
            /\ \A q \in Procs \ {p} :
                  (Signed(q) /\ signedTx[q].seq = signedTx[p].seq)
                      => signedTx[q] \notin rejected

\* The first call's broadcast failed; the resubmission used the same sequence
\* and its transaction is in a block.
C15_Witness ==
    \E p, q \in Procs :
        /\ p # q
        /\ pc[p] = "done"
        /\ result[p] = ErrVal("BroadcastFailed", "")
        /\ signedTx[q].seq = signedTx[p].seq
        /\ Included(signedTx[q].id)

DenomInGrammar(s) == DenomFromStr(s).tag = "Ok"

AmountInGrammar(s) == DecimalFromStr(s).tag = "Ok"

\* C16: for every valid PacketData value p, encoding p gives a wire value and
\* decoding that wire value succeeds with a value equal to p.
C16_RoundTrip ==
    codec.pkt0 # NoPacket =>
        /\ codec.pc = "encoded" =>
              /\ codec.raw # NoRaw
              /\ DenomInGrammar(codec.raw.denom)
              /\ AmountInGrammar(codec.raw.amount)
        /\ codec.pc = "redecoded" => codec.res = COk(codec.pkt0)

\* A PacketData value with an amount below one and different sender and
\* receiver, encoded and decoded back.
C16_Witness ==
    /\ codec.pc = "redecoded"
    /\ codec.pkt0 # NoPacket
    /\ codec.pkt0.token.amount.int = <<>>
    /\ codec.pkt0.token.amount.frac # <<>>
    /\ codec.pkt0.sender # codec.pkt0.receiver
    /\ codec.res = COk(codec.pkt0)

\* C17 as stated: a denom outside the denom grammar gives InvalidDenom, and an
\* amount outside the decimal grammar gives InvalidAmount; no PacketData value
\* is returned in either case.
C17_AsStated ==
    codec.pc = "decoded" =>
        /\ ~DenomInGrammar(codec.raw0.denom)
              => codec.res = CErr("InvalidDenom", NoPacket)
        /\ ~AmountInGrammar(codec.raw0.amount)
              => codec.res = CErr("InvalidAmount", NoPacket)

\* C17: a denom outside the denom grammar gives InvalidDenom; an amount
\* outside the decimal grammar, with a denom inside its grammar, gives
\* InvalidAmount; no PacketData value is returned in either case.
C17_DecodeErrors ==
    codec.pc = "decoded" =>
        /\ ~DenomInGrammar(codec.raw0.denom)
              => codec.res = CErr("InvalidDenom", NoPacket)
        /\ (DenomInGrammar(codec.raw0.denom) /\ ~AmountInGrammar(codec.raw0.amount))
              => codec.res = CErr("InvalidAmount", NoPacket)

\* A wire value with a good denom and a signed amount, decoded.
C17_Witness ==
    /\ codec.pc = "decoded"
    /\ DenomInGrammar(codec.raw0.denom)
    /\ codec.raw0.amount = <<"-", "1">>
    /\ codec.res.err = "InvalidAmount"

\* C18: decode succeeds exactly when denom and amount are in their grammars,
\* whatever sender and receiver are (empty included), and the decoded sender
\* and receiver render back to the wire strings.
C18_SignersNotValidated ==
    codec.pc = "decoded" =>
        /\ codec.res.tag = "Ok" <=>
              (DenomInGrammar(codec.raw0.denom) /\ AmountInGrammar(codec.raw0.amount))
        /\ codec.res.tag = "Ok" =>
              /\ SignerToString(codec.res.val.sender) = codec.raw0.sender
              /\ SignerToString(codec.res.val.receiver) = codec.raw0.receiver

\* A wire value with an empty sender and a non-empty receiver, decoded.
C18_Witness ==
    /\ codec.pc = "decoded"
    /\ codec.raw0.sender = <<>>
    /\ codec.raw0.receiver # <<>>
    /\ codec.res.tag = "Ok"
    /\ SignerToString(codec.res.val.sender) = <<>>

\* C20: for a test case that keeps the default spawn_supervisor, the driver's
\* spawn_supervisor is called, once, exactly when should_spawn_supervisor() is
\* true; the result is Some(handle) when the spawn succeeds, the spawn's error
\* when it fails, and None without a spawn when it is false; the
\* SupervisorOverride implementation returns that same result.
C20_SpawnIffShould ==
    \A t \in Tests :
        /\ sup[t].calls <= 1
        /\ sup[t].calls = 1 => sup[t].should_spawn
        /\ sup[t].pc \in {"default_ret", "done"} =>
              /\ sup[t].should_spawn =>
                    /\ sup[t].calls = 1
                    /\ sup[t].inner = IF sup[t].driver.tag = "Err"
                                      THEN SupErr
                                      ELSE SupOk(TRUE, sup[t].driver.handle)
              /\ ~sup[t].should_spawn =>
                    /\ sup[t].calls = 0
                    /\ sup[t].inner = SupOk(FALSE, 0)
        /\ sup[t].pc = "done" => sup[t].res = sup[t].inner

\* One test case got its supervisor handle, another one asked for none and
\* got None without a spawn.
C20_Witness ==
    \E t, u \in Tests :
        /\ sup[t].pc = "done" /\ sup[t].res = SupOk(TRUE, t) /\ sup[t].calls = 1
        /\ sup[u].pc = "done" /\ sup[u].res = SupOk(FALSE, 0) /\ sup[u].calls = 0

====
